---- MODULE Spec2Model ----
(***************************************************************************)
(* Model of the RAGAS evaluation runner (ragas_evaluation.py) and of the   *)
(* Azure OpenAI configuration validator (evaluation/test_azure_config.py). *)
(*                                                                         *)
(* Python functions are operators that return an Outcome record: the value *)
(* returned or the exception that escapes, the calls made to external      *)
(* collaborators (in order) and the console lines printed (in order).      *)
(* The results of external collaborators (ragas.evaluate, the Azure        *)
(* clients, the file system) are inputs chosen nondeterministically.       *)
(***************************************************************************)
EXTENDS Naturals, Sequences, FiniteSets, TLC

\* ------------------------------------------------------------------ bounds

\* Largest number of records in an input CSV.
MaxRows == 2

\* Largest number of the four expected columns an input CSV may lack.
MaxMissing == 1

\* --------------------------------------------------------------- Python values

None == [kind |-> "None"]

NoExc == [type |-> "none", arg |-> ""]

Exc(t, a) == [type |-> t, arg |-> a]

\* A function call that returned v.
Return(v, calls, console) ==
    [exc |-> NoExc, ret |-> v, calls |-> calls, console |-> console]

\* A function call that an exception escaped from.
Raise(e, calls, console) ==
    [exc |-> e, ret |-> None, calls |-> calls, console |-> console]

Line(msg, arg) == [msg |-> msg, arg |-> arg]

SeqUpTo(S, n) == UNION {[1..k -> S] : k \in 0..n}

\* What an external call can do: return, or raise an Exception.
Results == {"ok", "raise"}

\* ------------------------------------------------------------------ input CSV

Columns == {"question", "answer", "reference", "category"}

\* The texts a cell of each column may hold.
CellValues(c) ==
    IF c = "question" THEN {"q1", "q2"}
    ELSE IF c = "answer" THEN {"a1"}
    ELSE IF c = "reference" THEN {"r1", "r2"}
    ELSE {"math"}

Values == UNION {CellValues(c) : c \in Columns}

ColumnSets ==
    {Columns \ S : S \in {T \in SUBSET Columns : Cardinality(T) <= MaxMissing}}

Records(cols) ==
    {r \in [cols -> Values] : \A c \in cols : r[c] \in CellValues(c)}

\* The file at csv_path: absent, present but not readable as CSV (malformed,
\* empty, a directory), or a CSV with a header and records.
Files ==
    {[kind |-> "absent"], [kind |-> "unreadable"]}
    \cup UNION {{[kind |-> "csv", header |-> cols, records |-> rs] :
                    rs \in SeqUpTo(Records(cols), MaxRows)} : cols \in ColumnSets}

\* os.path.exists(csv_path)
path_exists(file) == file.kind # "absent"

\* pd.read_csv(csv_path)
read_csv(file) ==
    IF file.kind = "absent" THEN Raise(Exc("FileNotFoundError", ""), <<>>, <<>>)
    ELSE IF file.kind = "unreadable" THEN Raise(Exc("ParserError", ""), <<>>, <<>>)
    ELSE Return([kind |-> "DataFrame", columns |-> file.header,
                 rows |-> file.records], <<>>, <<>>)

\* df[c].tolist()
column_tolist(df, c) == [i \in 1..Len(df.rows) |-> df.rows[i][c]]

\* ------------------------------------------------------------------ load_data

\* Variant: a failed read yields an empty record set instead of None.
load_data_empty_on_error(file) ==
    LET r == read_csv(file) IN
    IF r.exc = NoExc
    THEN Return(r.ret, <<>>, <<Line("Successfully loaded", <<Len(r.ret.rows)>>)>>)
    ELSE Return([kind |-> "DataFrame", columns |-> Columns, rows |-> <<>>], <<>>,
                <<Line("Error loading data", <<r.exc.type>>)>>)

load_data(file) ==
    LET r == read_csv(file) IN
    IF r.exc = NoExc
    THEN Return(r.ret, <<>>, <<Line("Successfully loaded", <<Len(r.ret.rows)>>)>>)
    ELSE Return(None, <<>>, <<Line("Error loading data", <<r.exc.type>>)>>)

\* ------------------------------------------------------ prepare_ragas_dataset

\* Dataset.from_dict(d): the columns of d, row by row.
Dataset_from_dict(d) ==
    [kind |-> "Dataset",
     rows |-> [i \in 1..Len(d.question) |->
                  [question |-> d.question[i], answer |-> d.answer[i],
                   contexts |-> d.contexts[i], ground_truth |-> d.ground_truth[i]]]]

\* Variant: the ground truth is taken from the answer column.
prepare_ragas_dataset_answer_as_truth(df) ==
    IF "question" \notin df.columns
    THEN Raise(Exc("KeyError", "question"), <<>>, <<>>)
    ELSE IF "answer" \notin df.columns
    THEN Raise(Exc("KeyError", "answer"), <<>>, <<>>)
    ELSE IF "reference" \notin df.columns
    THEN Raise(Exc("KeyError", "reference"), <<>>, <<>>)
    ELSE LET questions == column_tolist(df, "question")
             answers == column_tolist(df, "answer")
             references == column_tolist(df, "reference")
             contexts == [i \in 1..Len(references) |-> <<references[i]>>]
             ground_truths == answers
             dataset_dict == [question |-> questions, answer |-> answers,
                              contexts |-> contexts, ground_truth |-> ground_truths]
         IN Return(Dataset_from_dict(dataset_dict), <<>>, <<>>)

\* Variant: a column the record set lacks is read as a column of nulls
\* (df.get(c) in place of df[c]).
prepare_ragas_dataset_null_fill(df) ==
    LET get(c) == IF c \in df.columns THEN column_tolist(df, c)
                  ELSE [i \in 1..Len(df.rows) |-> "NaN"]
        questions == get("question")
        answers == get("answer")
        references == get("reference")
        contexts == [i \in 1..Len(references) |-> <<references[i]>>]
        ground_truths == references
        dataset_dict == [question |-> questions, answer |-> answers,
                         contexts |-> contexts, ground_truth |-> ground_truths]
    IN Return(Dataset_from_dict(dataset_dict), <<>>, <<>>)

prepare_ragas_dataset(df) ==
    IF "question" \notin df.columns
    THEN Raise(Exc("KeyError", "question"), <<>>, <<>>)
    ELSE IF "answer" \notin df.columns
    THEN Raise(Exc("KeyError", "answer"), <<>>, <<>>)
    ELSE IF "reference" \notin df.columns
    THEN Raise(Exc("KeyError", "reference"), <<>>, <<>>)
    ELSE LET questions == column_tolist(df, "question")
             answers == column_tolist(df, "answer")
             references == column_tolist(df, "reference")
             contexts == [i \in 1..Len(references) |-> <<references[i]>>]
             ground_truths == references
             dataset_dict == [question |-> questions, answer |-> answers,
                              contexts |-> contexts, ground_truth |-> ground_truths]
         IN Return(Dataset_from_dict(dataset_dict), <<>>, <<>>)

\* -------------------------------------------------------------- environment

OptionalVars ==
    {"AZURE_OPENAI_API_VERSION", "AZURE_OPENAI_MODEL_DEPLOYMENT",
     "AZURE_OPENAI_EMBEDDING_DEPLOYMENT"}

\* The variables the fallback of evaluate_with_ragas removes.
OpenAIVars ==
    {"OPENAI_API_TYPE", "OPENAI_API_BASE", "OPENAI_DEPLOYMENT_NAME",
     "OPENAI_EMBEDDING_DEPLOYMENT"}

\* os.environ is a function from the names that are set to their values.
\* A required variable is unset, empty or set; the optional variables are
\* all unset or all set; so are the OPENAI_* variables.
Envs ==
    {[n \in {"AZURE_OPENAI_API_KEY" : x \in {k} \ {"unset"}}
            \cup {"AZURE_OPENAI_ENDPOINT" : x \in {e} \ {"unset"}}
            \cup (IF o THEN OptionalVars ELSE {})
            \cup (IF a THEN OpenAIVars ELSE {})
        |-> IF n = "AZURE_OPENAI_API_KEY" THEN (IF k = "empty" THEN "" ELSE "key")
            ELSE IF n = "AZURE_OPENAI_ENDPOINT"
                 THEN (IF e = "empty" THEN "" ELSE "https://endpoint")
            ELSE IF n = "OPENAI_API_TYPE" THEN "azure"
            ELSE "custom"] :
        k \in {"unset", "empty", "set"}, e \in {"unset", "empty", "set"},
        o \in BOOLEAN, a \in BOOLEAN}

\* bool(os.getenv(var))
getenv_truthy(env, var) == var \in DOMAIN env /\ env[var] # ""

\* os.getenv(var)
getenv(env, var) == IF var \in DOMAIN env THEN env[var] ELSE None

\* os.getenv(var, default)
getenv_default(env, var, default) == IF var \in DOMAIN env THEN env[var] ELSE default

\* os.environ.pop(var, None) for each var of vars
environ_pop(env, vars) == [n \in (DOMAIN env) \ vars |-> env[n]]

\* configure_azure_openai: required_vars, and
\* [var for var in required_vars if not os.getenv(var)]
configure_required_vars == <<"AZURE_OPENAI_API_KEY", "AZURE_OPENAI_ENDPOINT">>

configure_missing_vars(env) ==
    SelectSeq(configure_required_vars, LAMBDA var : ~ getenv_truthy(env, var))

\* test_azure_openai_config: required_vars, and
\* [var for var in required_vars if not os.getenv(var)]
required_vars == <<"AZURE_OPENAI_API_KEY", "AZURE_OPENAI_ENDPOINT">>

\* Variant: only unset variables count as missing (var not in os.environ).
missing_vars_unset_only(env) ==
    SelectSeq(required_vars, LAMBDA var : var \notin DOMAIN env)

missing_vars(env) == SelectSeq(required_vars, LAMBDA var : ~ getenv_truthy(env, var))

\* ------------------------------------------------------------ Azure clients

\* AzureChatOpenAI(...): the handle a successful construction yields.
AzureChatOpenAI(api_key, api_version, azure_endpoint, deployment_name, model) ==
    [kind |-> "AzureChatOpenAI", api_key |-> api_key, api_version |-> api_version,
     azure_endpoint |-> azure_endpoint, deployment_name |-> deployment_name,
     model |-> model, temperature |-> 0]

\* AzureOpenAIEmbeddings(...): the handle a successful construction yields.
AzureOpenAIEmbeddings(api_key, api_version, azure_endpoint, deployment, model) ==
    [kind |-> "AzureOpenAIEmbeddings", api_key |-> api_key,
     api_version |-> api_version, azure_endpoint |-> azure_endpoint,
     deployment |-> deployment, model |-> model]

\* Python truth value of an optional handle: None is false, a client object true.
truthy(v) == v # None

\* ----------------------------------------------------- configure_azure_openai

\* o_llm, o_emb: whether each client constructor returns or raises.
configure_azure_openai(env, o_llm, o_emb) ==
    LET azure_config ==
            [api_key |-> getenv(env, "AZURE_OPENAI_API_KEY"),
             api_version |-> getenv_default(env, "AZURE_OPENAI_API_VERSION", "2024-02-01"),
             azure_endpoint |-> getenv(env, "AZURE_OPENAI_ENDPOINT"),
             model_deployment |->
                 getenv_default(env, "AZURE_OPENAI_MODEL_DEPLOYMENT", "gpt-4"),
             embedding_deployment |->
                 getenv_default(env, "AZURE_OPENAI_EMBEDDING_DEPLOYMENT",
                                "text-embedding-ada-002")]
        missing == configure_missing_vars(env)
        azure_llm ==
            AzureChatOpenAI(azure_config.api_key, azure_config.api_version,
                            azure_config.azure_endpoint, azure_config.model_deployment,
                            azure_config.model_deployment)
        azure_embeddings ==
            AzureOpenAIEmbeddings(azure_config.api_key, azure_config.api_version,
                                  azure_config.azure_endpoint,
                                  azure_config.embedding_deployment,
                                  azure_config.embedding_deployment)
    IN  IF missing # <<>>
        THEN Return(None, <<>>,
                    <<Line("Error: Missing required environment variables", missing),
                      Line("Please set the following environment variables", <<>>)>>)
        ELSE IF o_llm = "raise" \/ o_emb = "raise"
        THEN Return(None, <<>>, <<Line("Error configuring Azure OpenAI", <<>>)>>)
        ELSE Return([kind |-> "tuple", llm |-> azure_llm, embeddings |-> azure_embeddings],
                    <<>>,
                    <<Line("Azure OpenAI configured successfully",
                           <<azure_config.azure_endpoint, azure_config.model_deployment,
                             azure_config.embedding_deployment>>)>>)

\* -------------------------------------------------------- evaluate_with_ragas

metrics ==
    <<"answer_relevancy", "answer_correctness", "answer_similarity",
      "context_recall", "context_precision", "faithfulness">>

\* One call of ragas.evaluate and how it ended; llm and embeddings are None
\* when not passed.
evaluate_call(dataset, ms, llm, embeddings, outcome) ==
    [fn |-> "evaluate", dataset |-> dataset, metrics |-> ms, llm |-> llm,
     embeddings |-> embeddings, outcome |-> outcome]

\* What ragas.evaluate returns for a call that succeeds.
evaluate_result(call) == [kind |-> "EvaluationResult", of |-> call]

\* Variant: the fallback call passes the handles again.
evaluate_with_ragas_retry_with_handles(dataset, azure_llm, azure_embeddings, env, o1, o2) ==
    LET first ==
            IF truthy(azure_llm) /\ truthy(azure_embeddings)
            THEN evaluate_call(dataset, metrics, azure_llm, azure_embeddings, o1)
            ELSE evaluate_call(dataset, metrics, None, None, o1)
        fallback == evaluate_call(dataset, metrics, azure_llm, azure_embeddings, o2)
        popped == environ_pop(env, OpenAIVars)
    IN  IF o1 = "ok"
        THEN [env |-> env] @@ Return(evaluate_result(first), <<first>>, <<>>)
        ELSE IF truthy(azure_llm) /\ truthy(azure_embeddings)
        THEN IF o2 = "ok"
             THEN [env |-> popped] @@
                  Return(evaluate_result(fallback), <<first, fallback>>, <<>>)
             ELSE [env |-> popped] @@ Return(None, <<first, fallback>>, <<>>)
        ELSE [env |-> env] @@
             Return(None, <<first>>, <<Line("Error during evaluation", <<>>)>>)

\* Variant: the fallback is attempted whether or not handles were supplied.
evaluate_with_ragas_always_fallback(dataset, azure_llm, azure_embeddings, env, o1, o2) ==
    LET first ==
            IF truthy(azure_llm) /\ truthy(azure_embeddings)
            THEN evaluate_call(dataset, metrics, azure_llm, azure_embeddings, o1)
            ELSE evaluate_call(dataset, metrics, None, None, o1)
        fallback == evaluate_call(dataset, metrics, None, None, o2)
        popped == environ_pop(env, OpenAIVars)
        failed == Line("Error during evaluation", <<>>)
    IN  IF o1 = "ok"
        THEN [env |-> env] @@ Return(evaluate_result(first), <<first>>, <<>>)
        ELSE IF o2 = "ok"
        THEN [env |-> popped] @@
             Return(evaluate_result(fallback), <<first, fallback>>, <<failed>>)
        ELSE [env |-> popped] @@ Return(None, <<first, fallback>>, <<failed>>)

\* Variant: one supplied handle is enough (or in place of and).
evaluate_with_ragas_any_handle(dataset, azure_llm, azure_embeddings, env, o1, o2) ==
    LET first ==
            IF truthy(azure_llm) \/ truthy(azure_embeddings)
            THEN evaluate_call(dataset, metrics, azure_llm, azure_embeddings, o1)
            ELSE evaluate_call(dataset, metrics, None, None, o1)
        fallback == evaluate_call(dataset, metrics, None, None, o2)
        popped == environ_pop(env, OpenAIVars)
    IN  IF o1 = "ok"
        THEN [env |-> env] @@ Return(evaluate_result(first), <<first>>, <<>>)
        ELSE IF truthy(azure_llm) \/ truthy(azure_embeddings)
        THEN IF o2 = "ok"
             THEN [env |-> popped] @@
                  Return(evaluate_result(fallback), <<first, fallback>>, <<>>)
             ELSE [env |-> popped] @@ Return(None, <<first, fallback>>, <<>>)
        ELSE [env |-> env] @@ Return(None, <<first>>, <<>>)

\* o1, o2: whether the first and the fallback call of ragas.evaluate return or
\* raise. The outcome also carries os.environ as the function leaves it.
evaluate_with_ragas(dataset, azure_llm, azure_embeddings, env, o1, o2) ==
    LET first ==
            IF truthy(azure_llm) /\ truthy(azure_embeddings)
            THEN evaluate_call(dataset, metrics, azure_llm, azure_embeddings, o1)
            ELSE evaluate_call(dataset, metrics, None, None, o1)
        fallback == evaluate_call(dataset, metrics, None, None, o2)
        popped == environ_pop(env, {"OPENAI_API_TYPE", "OPENAI_API_BASE",
                                    "OPENAI_DEPLOYMENT_NAME",
                                    "OPENAI_EMBEDDING_DEPLOYMENT"})
        started == Line("Starting RAGAS evaluation...", <<>>)
        failed == Line("Error during evaluation", <<>>)
        attempting == Line("Attempting fallback to standard OpenAI...", <<>>)
    IN  IF o1 = "ok"
        THEN [env |-> env] @@
             Return(evaluate_result(first), <<first>>,
                    <<started, Line("RAGAS evaluation completed successfully!", <<>>)>>)
        ELSE IF truthy(azure_llm) /\ truthy(azure_embeddings)
        THEN IF o2 = "ok"
             THEN [env |-> popped] @@
                  Return(evaluate_result(fallback), <<first, fallback>>,
                         <<started, failed, attempting,
                           Line("RAGAS evaluation completed with fallback OpenAI!", <<>>)>>)
             ELSE [env |-> popped] @@
                  Return(None, <<first, fallback>>,
                         <<started, failed, attempting,
                           Line("Fallback evaluation also failed", <<>>)>>)
        ELSE [env |-> env] @@ Return(None, <<first>>, <<started, failed>>)

\* result.to_pandas(): one row per record of the dataset, one column per metric.
to_pandas(result) ==
    [kind |-> "ResultFrame", columns |-> result.of.metrics,
     nrows |-> Len(result.of.dataset.rows), of |-> result.of]

\* ------------------------------------------------------ save_detailed_results

\* What result_df.to_csv can do: write the file, or raise before writing or
\* after writing part of it.
WriteResults == {"ok", "raise_unwritten", "raise_partial"}

NoFile == [kind |-> "absent"]

\* outfile: the file at output_path before the call; the outcome carries the
\* file as the function leaves it.
save_detailed_results(result_df, outfile, o_write) ==
    IF result_df = None
    THEN [outfile |-> outfile] @@ Return(None, <<>>, <<Line("No results to save.", <<>>)>>)
    ELSE IF o_write = "ok"
    THEN [outfile |-> [kind |-> "csv", frame |-> result_df]] @@
         Return(None, <<>>, <<Line("Detailed results saved to", <<>>)>>)
    ELSE [outfile |-> IF o_write = "raise_partial"
                      THEN [kind |-> "partial"] ELSE outfile] @@
         Return(None, <<>>, <<Line("Error saving results", <<>>)>>)

\* --------------------------------------------------- test_azure_openai_config

\* One call of azure_llm.invoke and how it ended.
invoke_call(client, outcome) ==
    [fn |-> "invoke", client |-> client, input |-> "Hello, how are you?",
     outcome |-> outcome]

\* One call of azure_embeddings.embed_query and how it ended.
embed_query_call(client, outcome) ==
    [fn |-> "embed_query", client |-> client, input |-> "Hello world",
     outcome |-> outcome]

\* Variant: the embedding test runs in a try block of its own, whatever the
\* chat test did, and alone decides the result.
test_azure_openai_config_independent_tests(env, o_llm, o_invoke, o_emb, o_embed) ==
    LET missing == missing_vars(env)
        azure_llm == [kind |-> "AzureChatOpenAI"]
        azure_embeddings == [kind |-> "AzureOpenAIEmbeddings"]
        chat == IF o_llm = "ok" THEN <<invoke_call(azure_llm, o_invoke)>> ELSE <<>>
        embed == IF o_emb = "ok" THEN <<embed_query_call(azure_embeddings, o_embed)>>
                 ELSE <<>>
    IN  IF missing # <<>>
        THEN Return(FALSE, <<>>,
                    <<Line("Missing required environment variables", missing)>>)
        ELSE Return(o_emb = "ok" /\ o_embed = "ok", chat \o embed, <<>>)

\* o_llm, o_emb: whether each client constructor returns or raises;
\* o_invoke, o_embed: whether the chat call and the embedding call do.
test_azure_openai_config(env, o_llm, o_invoke, o_emb, o_embed) ==
    LET missing == missing_vars(env)
        header == <<Line("Testing Azure OpenAI Configuration", <<>>)>>
        configuration ==
            <<Line("Configuration",
                   <<getenv(env, "AZURE_OPENAI_ENDPOINT"),
                     getenv_default(env, "AZURE_OPENAI_API_VERSION", "2024-02-01"),
                     getenv_default(env, "AZURE_OPENAI_MODEL_DEPLOYMENT", "gpt-4"),
                     getenv_default(env, "AZURE_OPENAI_EMBEDDING_DEPLOYMENT",
                                    "text-embedding-ada-002")>>)>>
        azure_llm ==
            [kind |-> "AzureChatOpenAI",
             api_key |-> getenv(env, "AZURE_OPENAI_API_KEY"),
             api_version |-> getenv_default(env, "AZURE_OPENAI_API_VERSION", "2024-02-01"),
             azure_endpoint |-> getenv(env, "AZURE_OPENAI_ENDPOINT"),
             deployment_name |->
                 getenv_default(env, "AZURE_OPENAI_MODEL_DEPLOYMENT", "gpt-4"),
             temperature |-> 0]
        azure_embeddings ==
            [kind |-> "AzureOpenAIEmbeddings",
             api_key |-> getenv(env, "AZURE_OPENAI_API_KEY"),
             api_version |-> getenv_default(env, "AZURE_OPENAI_API_VERSION", "2024-02-01"),
             azure_endpoint |-> getenv(env, "AZURE_OPENAI_ENDPOINT"),
             deployment |->
                 getenv_default(env, "AZURE_OPENAI_EMBEDDING_DEPLOYMENT",
                                "text-embedding-ada-002")]
        testing_llm == <<Line("Testing Azure OpenAI LLM...", <<>>)>>
        testing_emb == <<Line("LLM Response", <<>>),
                         Line("Testing Azure OpenAI Embeddings...", <<>>)>>
        failed == <<Line("Azure OpenAI configuration test failed", <<>>)>>
        chat == invoke_call(azure_llm, o_invoke)
        embed == embed_query_call(azure_embeddings, o_embed)
    IN  IF missing # <<>>
        THEN Return(FALSE, <<>>,
                    header \o <<Line("Missing required environment variables", missing)>>)
        ELSE IF o_llm = "raise"
        THEN Return(FALSE, <<>>, header \o configuration \o testing_llm \o failed)
        ELSE IF o_invoke = "raise"
        THEN Return(FALSE, <<chat>>, header \o configuration \o testing_llm \o failed)
        ELSE IF o_emb = "raise"
        THEN Return(FALSE, <<chat>>,
                    header \o configuration \o testing_llm \o testing_emb \o failed)
        ELSE IF o_embed = "raise"
        THEN Return(FALSE, <<chat, embed>>,
                    header \o configuration \o testing_llm \o testing_emb \o failed)
        ELSE Return(TRUE, <<chat, embed>>,
                    header \o configuration \o testing_llm \o testing_emb
                    \o <<Line("Embedding dimension", <<>>),
                         Line("Azure OpenAI configuration test passed!", <<>>)>>)

\* ====================================================================== state

VARIABLES
    entry,             \* what runs: the runner's main, its functions called
                       \* directly, or the validator's main
    pc,                \* the statement to run next
    env,               \* os.environ
    file,              \* the file at csv_path
    outfile,           \* the file at output_path
    azure_llm,         \* main's azure_llm, or the argument passed directly
    azure_embeddings,  \* main's azure_embeddings, or the argument passed directly
    df,                \* what load_data returned
    dataset,           \* what prepare_ragas_dataset returned
    evaluated,         \* what evaluate_with_ragas returned
    result,            \* main's result
    success,           \* the validator's success
    calls,             \* calls made to ragas.evaluate and to the Azure clients
    console,           \* lines printed
    exc                \* the exception that escaped, if any

vars == <<entry, pc, env, file, outfile, azure_llm, azure_embeddings, df, dataset,
          evaluated, result, success, calls, console, exc>>

Unbound == [kind |-> "unbound"]

\* A handle supplied by a direct caller of evaluate_with_ragas.
SomeLLM == AzureChatOpenAI("key", "2024-02-01", "https://endpoint", "gpt-4", "gpt-4")

SomeEmbeddings ==
    AzureOpenAIEmbeddings("key", "2024-02-01", "https://endpoint",
                          "text-embedding-ada-002", "text-embedding-ada-002")

InitCommon ==
    /\ env \in Envs
    /\ outfile \in {NoFile, [kind |-> "old"]}
    /\ df = Unbound
    /\ dataset = Unbound
    /\ evaluated = Unbound
    /\ result = Unbound
    /\ success = Unbound
    /\ calls = <<>>
    /\ console = <<>>
    /\ exc = NoExc

\* python ragas_evaluation.py [csv_path]
InitMain ==
    /\ entry = "main"
    /\ pc = "configure"
    /\ file \in Files
    /\ azure_llm = Unbound
    /\ azure_embeddings = Unbound
    /\ InitCommon

\* load_data, prepare_ragas_dataset, evaluate_with_ragas and
\* save_detailed_results called in turn by a caller that supplies the handles.
InitFunctions ==
    /\ entry = "functions"
    /\ pc = "call_load"
    /\ file \in Files
    /\ azure_llm \in {None, SomeLLM}
    /\ azure_embeddings \in {None, SomeEmbeddings}
    /\ InitCommon

\* python test_azure_config.py
InitValidator ==
    /\ entry = "validator"
    /\ pc = "validate"
    /\ file = NoFile
    /\ azure_llm = Unbound
    /\ azure_embeddings = Unbound
    /\ InitCommon

Init == InitMain \/ InitFunctions \/ InitValidator

\* ================================================= ragas_evaluation.py: main

\* Variant: main returns when Azure OpenAI cannot be configured.
MainConfigure_halts ==
    /\ entry = "main" /\ pc = "configure"
    /\ \E o_llm \in Results, o_emb \in Results :
         LET r == configure_azure_openai(env, o_llm, o_emb)
             azure_config == r.ret
         IN  /\ IF azure_config = None
                THEN /\ azure_llm' = None
                     /\ azure_embeddings' = None
                     /\ pc' = "returned"
                ELSE /\ azure_llm' = azure_config.llm
                     /\ azure_embeddings' = azure_config.embeddings
                     /\ pc' = "check_exists"
             /\ console' = console \o r.console
    /\ UNCHANGED <<entry, env, file, outfile, df, dataset, evaluated, result, success,
                   calls, exc>>

\* Lines 259-269: configure Azure OpenAI, or fall back to no handles.
MainConfigure ==
    /\ entry = "main" /\ pc = "configure"
    /\ \E o_llm \in Results, o_emb \in Results :
         LET r == configure_azure_openai(env, o_llm, o_emb)
             azure_config == r.ret
         IN  /\ IF azure_config = None
                THEN /\ azure_llm' = None
                     /\ azure_embeddings' = None
                     /\ console' = console \o r.console
                            \o <<Line("Falling back to default OpenAI configuration...",
                                      <<>>)>>
                ELSE /\ azure_llm' = azure_config.llm
                     /\ azure_embeddings' = azure_config.embeddings
                     /\ console' = console \o r.console
    /\ pc' = "check_exists"
    /\ UNCHANGED <<entry, env, file, outfile, df, dataset, evaluated, result, success,
                   calls, exc>>

\* Lines 271-274: stop when the input file does not exist.
MainCheckExists ==
    /\ entry = "main" /\ pc = "check_exists"
    /\ IF ~ path_exists(file)
       THEN /\ console' = console \o <<Line("Error: Input file not found.", <<>>)>>
            /\ pc' = "returned"
       ELSE /\ console' = console
            /\ pc' = "load"
    /\ UNCHANGED <<entry, env, file, outfile, azure_llm, azure_embeddings, df, dataset,
                   evaluated, result, success, calls, exc>>

\* Lines 276-279: load the data, stop when load_data returns None.
MainLoad ==
    /\ entry = "main" /\ pc = "load"
    /\ LET r == load_data(file)
       IN  /\ df' = r.ret
           /\ console' = console \o r.console
           /\ pc' = IF r.ret = None THEN "returned" ELSE "describe"
    /\ UNCHANGED <<entry, env, file, outfile, azure_llm, azure_embeddings, dataset,
                   evaluated, result, success, calls, exc>>

\* Lines 281-282: print the shape and the categories of the data.
MainDescribe ==
    /\ entry = "main" /\ pc = "describe"
    /\ IF "category" \notin df.columns
       THEN /\ exc' = Exc("KeyError", "category")
            /\ console' = console \o <<Line("Data shape", <<>>)>>
            /\ pc' = "raised"
       ELSE /\ exc' = exc
            /\ console' = console \o <<Line("Data shape", <<>>), Line("Categories", <<>>)>>
            /\ pc' = "prepare"
    /\ UNCHANGED <<entry, env, file, outfile, azure_llm, azure_embeddings, df, dataset,
                   evaluated, result, success, calls>>

\* Lines 284-286: prepare the dataset.
MainPrepare ==
    /\ entry = "main" /\ pc = "prepare"
    /\ LET r == prepare_ragas_dataset(df)
       IN  /\ exc' = r.exc
           /\ dataset' = IF r.exc = NoExc THEN r.ret ELSE dataset
           /\ pc' = IF r.exc = NoExc THEN "evaluate" ELSE "raised"
    /\ console' = console \o <<Line("Preparing dataset for RAGAS evaluation...", <<>>)>>
    /\ UNCHANGED <<entry, env, file, outfile, azure_llm, azure_embeddings, df,
                   evaluated, result, success, calls>>

\* Lines 288-291: evaluate and convert the result with to_pandas().
MainEvaluate ==
    /\ entry = "main" /\ pc = "evaluate"
    /\ \E o1 \in Results, o2 \in Results :
         LET r == evaluate_with_ragas(dataset, azure_llm, azure_embeddings, env, o1, o2)
         IN  /\ evaluated' = r.ret
             /\ calls' = calls \o r.calls
             /\ env' = r.env
             /\ IF r.ret = None
                THEN /\ exc' = Exc("AttributeError", "to_pandas")
                     /\ result' = result
                     /\ console' = console \o <<Line("dataset shape", <<>>)>> \o r.console
                     /\ pc' = "raised"
                ELSE /\ exc' = exc
                     /\ result' = to_pandas(r.ret)
                     /\ console' = console \o <<Line("dataset shape", <<>>)>> \o r.console
                                       \o <<Line("Evaluation result", <<>>)>>
                     /\ pc' = "save"
    /\ UNCHANGED <<entry, file, outfile, azure_llm, azure_embeddings, df, dataset,
                   success>>

\* Lines 296-299: save the results and finish.
MainSave ==
    /\ entry = "main" /\ pc = "save"
    /\ \E o_write \in WriteResults :
         LET r == save_detailed_results(result, outfile, o_write)
         IN  /\ outfile' = r.outfile
             /\ console' = console \o r.console \o <<Line("Evaluation complete!", <<>>)>>
    /\ pc' = "returned"
    /\ UNCHANGED <<entry, env, file, azure_llm, azure_embeddings, df, dataset,
                   evaluated, result, success, calls, exc>>

main == MainConfigure \/ MainCheckExists \/ MainLoad \/ MainDescribe \/ MainPrepare
            \/ MainEvaluate \/ MainSave

\* ============================================== the functions, called directly

CallLoadData ==
    /\ entry = "functions" /\ pc = "call_load"
    /\ LET r == load_data(file)
       IN  /\ df' = r.ret
           /\ console' = console \o r.console
           /\ pc' = IF r.ret = None THEN "returned" ELSE "call_prepare"
    /\ UNCHANGED <<entry, env, file, outfile, azure_llm, azure_embeddings, dataset,
                   evaluated, result, success, calls, exc>>

CallPrepare ==
    /\ entry = "functions" /\ pc = "call_prepare"
    /\ LET r == prepare_ragas_dataset(df)
       IN  /\ exc' = r.exc
           /\ dataset' = IF r.exc = NoExc THEN r.ret ELSE dataset
           /\ pc' = IF r.exc = NoExc THEN "call_evaluate" ELSE "raised"
    /\ UNCHANGED <<entry, env, file, outfile, azure_llm, azure_embeddings, df,
                   evaluated, result, success, calls, console>>

CallEvaluate ==
    /\ entry = "functions" /\ pc = "call_evaluate"
    /\ \E o1 \in Results, o2 \in Results :
         LET r == evaluate_with_ragas(dataset, azure_llm, azure_embeddings, env, o1, o2)
         IN  /\ evaluated' = r.ret
             /\ calls' = calls \o r.calls
             /\ console' = console \o r.console
             /\ env' = r.env
             /\ exc' = r.exc
    /\ pc' = "call_save"
    /\ UNCHANGED <<entry, file, outfile, azure_llm, azure_embeddings, df, dataset,
                   result, success>>

\* The caller converts a result and passes None on.
CallSave ==
    /\ entry = "functions" /\ pc = "call_save"
    /\ result' = IF evaluated = None THEN None ELSE to_pandas(evaluated)
    /\ \E o_write \in WriteResults :
         LET r == save_detailed_results(result', outfile, o_write)
         IN  /\ outfile' = r.outfile
             /\ console' = console \o r.console
    /\ pc' = "returned"
    /\ UNCHANGED <<entry, env, file, azure_llm, azure_embeddings, df, dataset,
                   evaluated, success, calls, exc>>

functions == CallLoadData \/ CallPrepare \/ CallEvaluate \/ CallSave

\* ================================================ test_azure_config.py: main

\* Line 110: success = test_azure_openai_config()
ValidatorTest ==
    /\ entry = "validator" /\ pc = "validate"
    /\ \E o_llm \in Results, o_invoke \in Results, o_emb \in Results,
          o_embed \in Results :
         LET r == test_azure_openai_config(env, o_llm, o_invoke, o_emb, o_embed)
         IN  /\ success' = r.ret
             /\ calls' = calls \o r.calls
             /\ console' = console \o r.console
             /\ exc' = r.exc
    /\ pc' = "report"
    /\ UNCHANGED <<entry, env, file, outfile, azure_llm, azure_embeddings, df, dataset,
                   evaluated, result>>

\* Lines 112-120: report the outcome.
ValidatorReport ==
    /\ entry = "validator" /\ pc = "report"
    /\ console' = console \o
           <<IF success THEN Line("All tests passed! Ready to run RAGAS evaluation.", <<>>)
             ELSE Line("Please check your Azure OpenAI configuration.", <<>>)>>
    /\ pc' = "returned"
    /\ UNCHANGED <<entry, env, file, outfile, azure_llm, azure_embeddings, df, dataset,
                   evaluated, result, success, calls, exc>>

validator == ValidatorTest \/ ValidatorReport

\* ======================================================================= spec

Next == main \/ functions \/ validator

Spec == Init /\ [][Next]_vars

\* ================================================================ properties

\* The six metrics, as the claims list them.
SixMetrics ==
    <<"answer_relevancy", "answer_correctness", "answer_similarity",
      "context_recall", "context_precision", "faithfulness">>

\* evaluate_with_ragas has run (once per run, in main or called directly).
Evaluated == evaluated # Unbound

BothSupplied == azure_llm # None /\ azure_embeddings # None

NoneSupplied == azure_llm = None /\ azure_embeddings = None

WithoutHandles(call) == call.llm = None /\ call.embeddings = None

Printed(msg) == \E i \in 1..Len(console) : console[i].msg = msg

\* The file at output_path has not been written by this run.
NotWritten == outfile.kind \in {"absent", "old"}

Finished == pc \in {"returned", "raised"}

\* C1: with both handles supplied, a first evaluate call that raises is
\* followed by exactly one more call, made without the handles, whose result
\* is returned if it succeeds and None if it raises; evaluate is never called
\* more than twice, and every call gets the same dataset and the six metrics.
C1_SingleFallback ==
    Evaluated =>
        /\ Len(calls) \in {1, 2}
        /\ \A i \in 1..Len(calls) :
              /\ calls[i].fn = "evaluate"
              /\ calls[i].dataset = dataset
              /\ calls[i].metrics = SixMetrics
        /\ (BothSupplied /\ calls[1].outcome = "raise") =>
              /\ Len(calls) = 2
              /\ WithoutHandles(calls[2])
              /\ calls[2].outcome = "ok" => evaluated = evaluate_result(calls[2])
              /\ calls[2].outcome = "raise" => evaluated = None

C1_Witness ==
    /\ Evaluated /\ BothSupplied /\ Len(calls) = 2
    /\ calls[1].outcome = "raise" /\ calls[2].outcome = "ok"
    /\ evaluated = evaluate_result(calls[2])
    /\ Len(dataset.rows) = 2

\* C2: with no handles supplied, an evaluate call that raises is reported, is
\* not followed by a second call, and evaluate_with_ragas returns None without
\* letting an exception out.
C2_NoHandlesNoFallback ==
    (Evaluated /\ NoneSupplied /\ calls[1].outcome = "raise") =>
        /\ Len(calls) = 1
        /\ evaluated = None
        /\ Printed("Error during evaluation")
        /\ ~ Printed("Attempting fallback to standard OpenAI...")
        /\ entry = "functions" => exc = NoExc

C2_Witness ==
    /\ entry = "functions" /\ Evaluated /\ NoneSupplied
    /\ calls[1].outcome = "raise" /\ evaluated = None /\ exc = NoExc

\* C3: whenever the evaluator yields no result in main, no exception escapes
\* main and the output CSV is not written.
C3_MainHaltsCleanly ==
    (entry = "main" /\ Evaluated /\ evaluated = None) =>
        /\ exc = NoExc
        /\ NotWritten

\* test_azure_openai_config has run.
Validated == entry = "validator" /\ pc \in {"report", "returned"}

\* The required variables that are unset or empty.
UnsetOrEmpty ==
    {v \in {"AZURE_OPENAI_API_KEY", "AZURE_OPENAI_ENDPOINT"} :
        v \notin DOMAIN env \/ env[v] = ""}

CallsOf(fn) == {i \in 1..Len(calls) : calls[i].fn = fn}

\* C4: when some required variable is unset or empty, the validator reports
\* exactly the unset or empty ones as missing, makes no chat and no embedding
\* call, and returns False.
C4_MissingVarsNoCalls ==
    (Validated /\ UnsetOrEmpty # {}) =>
        /\ success = FALSE
        /\ calls = <<>>
        /\ \E i \in 1..Len(console) :
              /\ console[i].msg = "Missing required environment variables"
              /\ {console[i].arg[j] : j \in 1..Len(console[i].arg)} = UnsetOrEmpty
              /\ Len(console[i].arg) = Cardinality(UnsetOrEmpty)

C4_Witness ==
    /\ Validated /\ success = FALSE /\ calls = <<>>
    /\ UnsetOrEmpty = {"AZURE_OPENAI_ENDPOINT"}
    /\ "AZURE_OPENAI_ENDPOINT" \in DOMAIN env

\* C9: when no required variable is missing, the validator makes at most one
\* chat call and at most one embedding call, the chat call first, the
\* embedding call only after a chat call that succeeded, and returns True
\* exactly when both calls succeeded; a failure is caught and gives False.
C9_ChatThenEmbedding ==
    (Validated /\ UnsetOrEmpty = {}) =>
        /\ \A i \in 1..Len(calls) : calls[i].fn \in {"invoke", "embed_query"}
        /\ Cardinality(CallsOf("invoke")) <= 1
        /\ Cardinality(CallsOf("embed_query")) <= 1
        /\ \A i \in CallsOf("embed_query") :
              \E j \in CallsOf("invoke") : j < i /\ calls[j].outcome = "ok"
        /\ \A i \in CallsOf("embed_query") : \A j \in CallsOf("invoke") : j < i
        /\ success \in BOOLEAN
        /\ success <=> /\ \E j \in CallsOf("invoke") : calls[j].outcome = "ok"
                       /\ \E i \in CallsOf("embed_query") : calls[i].outcome = "ok"
        /\ exc = NoExc

C9_Witness ==
    /\ Validated /\ UnsetOrEmpty = {} /\ success = FALSE
    /\ Len(calls) = 2 /\ calls[1].fn = "invoke" /\ calls[1].outcome = "ok"
    /\ calls[2].fn = "embed_query" /\ calls[2].outcome = "raise"

\* prepare_ragas_dataset has been called (on the record set df).
Prepared ==
    \/ entry = "functions" /\ pc \in {"call_evaluate", "call_save"}
    \/ entry = "functions" /\ pc \in {"returned", "raised"} /\ df # None
    \/ entry = "main" /\ pc \in {"evaluate", "save"}
    \/ entry = "main" /\ Finished /\ df \notin {Unbound, None}
                      /\ exc # Exc("KeyError", "category")

\* C5: for a record set with the columns question, answer and reference,
\* prepare_ragas_dataset returns one input per record, in order, with question
\* and answer copied, contexts = [reference] and ground_truth = reference;
\* for no records it returns an empty collection.
C5_OneInputPerRecord ==
    (Prepared /\ {"question", "answer", "reference"} \subseteq df.columns) =>
        /\ dataset # Unbound
        /\ dataset.kind = "Dataset"
        /\ Len(dataset.rows) = Len(df.rows)
        /\ \A i \in 1..Len(df.rows) :
              /\ dataset.rows[i].question = df.rows[i]["question"]
              /\ dataset.rows[i].answer = df.rows[i]["answer"]
              /\ dataset.rows[i].contexts = <<df.rows[i]["reference"]>>
              /\ dataset.rows[i].ground_truth = df.rows[i]["reference"]
        /\ entry = "functions" => exc = NoExc

C5_Witness ==
    /\ Prepared /\ dataset # Unbound /\ Len(df.rows) = 2
    /\ df.rows[1]["question"] # df.rows[2]["question"]
    /\ df.rows[1]["reference"] # df.rows[2]["reference"]
    /\ Len(dataset.rows) = 2

C5_WitnessEmpty == Prepared /\ dataset # Unbound /\ df.rows = <<>> /\ dataset.rows = <<>>

\* The expected columns the input CSV lacks.
Lacking == IF file.kind = "csv" THEN Columns \ file.header ELSE {}

\* load_data and then prepare_ragas_dataset have been called directly.
LoadedThenPrepared ==
    entry = "functions" /\ file.kind = "csv" /\ pc # "call_load" /\ pc # "call_prepare"

\* main has run past its loading and preparing of the data (lines 276-286).
MainPastPrepare ==
    entry = "main" /\ file.kind = "csv"
    /\ pc \notin {"configure", "check_exists", "load", "describe", "prepare"}

\* C6 as stated: for a CSV lacking any one of question, answer, reference and
\* category, load_data followed by prepare_ragas_dataset fails and produces no
\* collection.
C6_AnyMissingColumnFails ==
    (LoadedThenPrepared /\ Lacking # {}) => (exc # NoExc /\ dataset = Unbound)

\* C6 amended: load_data followed by prepare_ragas_dataset fails with a
\* KeyError, producing no collection, exactly when the CSV lacks question,
\* answer or reference; a CSV lacking only category is prepared without
\* error. In main a CSV lacking any of the four columns ends the run with a
\* KeyError and no collection, before evaluate is called; for category the
\* KeyError comes from main's own lookup of the column.
C6_MissingColumnFails ==
    /\ (LoadedThenPrepared /\ Lacking \cap {"question", "answer", "reference"} # {}) =>
          /\ pc = "raised" /\ exc.type = "KeyError"
          /\ exc.arg \in Lacking \ {"category"}
          /\ dataset = Unbound
    /\ (LoadedThenPrepared /\ Lacking \subseteq {"category"}) =>
          /\ exc = NoExc /\ dataset # Unbound /\ dataset.kind = "Dataset"
    /\ (MainPastPrepare /\ Lacking # {}) =>
          /\ pc = "raised" /\ exc.type = "KeyError" /\ exc.arg \in Lacking
          /\ "category" \in Lacking => exc.arg = "category"
          /\ dataset = Unbound
          /\ calls = <<>>
          /\ NotWritten

C6_Witness ==
    /\ MainPastPrepare /\ Lacking = {"reference"} /\ Len(file.records) = 2
    /\ pc = "raised" /\ exc = Exc("KeyError", "reference")

C6_WitnessCategory ==
    /\ LoadedThenPrepared /\ Lacking = {"category"} /\ Len(file.records) = 2
    /\ dataset # Unbound

\* C7: when the input file does not exist or cannot be read, load_data
\* returns None, never a record set, and main returns without calling
\* evaluate and without writing the output CSV.
C7_LoadFailureHalts ==
    file.kind \in {"absent", "unreadable"} =>
        /\ df \in {Unbound, None}
        /\ (entry = "functions" /\ pc # "call_load") =>
              df = None /\ Printed("Error loading data")
        /\ entry = "main" =>
              /\ pc \in {"configure", "check_exists", "load", "returned"}
              /\ file.kind = "unreadable" /\ pc = "returned" =>
                    df = None /\ Printed("Error loading data")
              /\ file.kind = "absent" /\ pc = "returned" =>
                    Printed("Error: Input file not found.")
              /\ calls = <<>>
              /\ evaluated = Unbound
              /\ NotWritten
              /\ exc = NoExc

C7_Witness ==
    /\ entry = "main" /\ file.kind = "unreadable" /\ pc = "returned" /\ df = None
    /\ calls = <<>> /\ NotWritten

\* configure_azure_openai returned None to main.
Degraded == entry = "main" /\ pc # "configure" /\ azure_llm = None

\* C8 as stated: after configure_azure_openai returns None, main goes on and,
\* if the input loads, calls evaluate exactly once, without handles.
C8_DegradedOneCallIfLoaded ==
    (Degraded /\ Finished /\ file.kind = "csv") =>
        Len(calls) = 1 /\ WithoutHandles(calls[1])

\* C8 amended: after configure_azure_openai returns None, main goes on and,
\* if the input loads and has the columns question, answer, reference and
\* category, calls evaluate exactly once, without handles, with no fallback
\* call when it fails; on this path evaluate is never called more than once
\* nor with handles.
C8_DegradedOneCall ==
    Degraded =>
        /\ azure_embeddings = None
        /\ Len(calls) <= 1
        /\ \A i \in 1..Len(calls) : WithoutHandles(calls[i])
        /\ (Finished /\ file.kind = "csv" /\ Lacking = {}) =>
              /\ Len(calls) = 1
              /\ calls[1].fn = "evaluate"
              /\ calls[1].outcome = "raise" => evaluated = None
        /\ ~ Printed("Attempting fallback to standard OpenAI...")

C8_Witness ==
    /\ Degraded /\ Finished /\ file.kind = "csv" /\ Lacking = {}
    /\ Len(calls) = 1 /\ calls[1].outcome = "raise"
    /\ "AZURE_OPENAI_API_KEY" \in DOMAIN env /\ "AZURE_OPENAI_ENDPOINT" \in DOMAIN env
    /\ env["AZURE_OPENAI_API_KEY"] # "" /\ env["AZURE_OPENAI_ENDPOINT"] # ""

\* C10: evaluate gets handles only when both were supplied, and then only in
\* its first call; with exactly one supplied the one call is made without
\* handles and its failure is final; in main the two handles are both None or
\* both clients made by configure_azure_openai.
C10_AllOrNothing ==
    /\ Evaluated =>
          /\ \A i \in 1..Len(calls) :
                ~ WithoutHandles(calls[i]) =>
                    /\ i = 1 /\ BothSupplied
                    /\ calls[i].llm = azure_llm
                    /\ calls[i].embeddings = azure_embeddings
          /\ BothSupplied => ~ WithoutHandles(calls[1])
          /\ (~ BothSupplied /\ ~ NoneSupplied) =>
                /\ Len(calls) = 1
                /\ WithoutHandles(calls[1])
                /\ calls[1].outcome = "raise" => evaluated = None
    /\ (entry = "main" /\ pc # "configure") =>
          \/ NoneSupplied
          \/ /\ azure_llm.kind = "AzureChatOpenAI"
             /\ azure_embeddings.kind = "AzureOpenAIEmbeddings"

C10_Witness ==
    /\ Evaluated /\ azure_llm # None /\ azure_embeddings = None
    /\ Len(calls) = 1 /\ calls[1].outcome = "raise" /\ evaluated = None

====
